---- MODULE Spec2Model ----
(***************************************************************************)
(* Model of the task scheduler of tasks/scheduler.py and of the record     *)
(* that caches its result, tasks/models.py.                                *)
(*                                                                         *)
(* A task is a Python dict.  It is modelled as a record that carries the   *)
(* set of keys the dict has ("keys") next to a value for each of the three *)
(* keys the code reads; a lookup of a key that is not in "keys" is the     *)
(* KeyError of the code.  Task names are integers.                         *)
(*                                                                         *)
(* The inherited methods of networkx's MaxWeightClique (find_max_weight_   *)
(* clique, find_branching_nodes, greedily_find_independent_set,            *)
(* update_incumbent_if_improved) and the Graph methods are modelled at the *)
(* places where scheduler.py calls them.                                   *)
(***************************************************************************)
EXTENDS Integers, Sequences, FiniteSets, TLC

VARIABLES
    file,             \* content of tasks_file: the uploaded JSON list of tasks
    raw_tasks,        \* TasksScheduler.raw_tasks (JSON null or a list)
    best_schedule,    \* TasksScheduler.best_schedule (JSON null or a list)
    file_reads,       \* number of times tasks_file was opened and read
    sched_calls,      \* number of times the scheduling function was invoked
    caller,           \* who waits for the running scheduling call
    passed,           \* value of the list handed to the scheduler, at call time
    tasks,            \* the list object handed to from_tasks_to_graph
    graph,            \* the networkx Graph under construction / searched
    stack,            \* the active calls of expand, innermost last
    incumbent_nodes,  \* MaxWeightTasksSelector.incumbent_nodes
    incumbent_weight, \* MaxWeightTasksSelector.incumbent_weight
    schedule,         \* value returned by get_highest_profit_schedule
    outcome,          \* how the last scheduling call ended
    err_task,         \* the task named by InvalidTaskFormat, if raised
    pc                \* position of the running call

vars == <<file, raw_tasks, best_schedule, file_reads, sched_calls, caller,
          passed, tasks, graph, stack, incumbent_nodes, incumbent_weight,
          schedule, outcome, err_task, pc>>

record_vars == <<file, raw_tasks, best_schedule, file_reads, sched_calls>>

search_vars == <<stack, incumbent_nodes, incumbent_weight>>

(***************************************************************************)
(* Bounds of the model.                                                    *)
(***************************************************************************)
MaxTasks == 3

MaxProfit == 2

MaxCalls == 2

(***************************************************************************)
(* Keys of a task dict.                                                    *)
(***************************************************************************)
NAME_KEY == "name"

RESOURCES_KEY == "resources"

PROFIT_KEY == "profit"

AllKeys == {NAME_KEY, RESOURCES_KEY, PROFIT_KEY}

Range(s) == {s[i] : i \in DOMAIN s}

Last(s) == s[Len(s)]

Front(s) == SubSeq(s, 1, Len(s) - 1)

Task(n, r, p) == [keys |-> AllKeys, name |-> n, resources |-> r, profit |-> p]

\* `key in task`: the dict has the key.
HasKey(t, k) == k \in t.keys

(***************************************************************************)
(* JSONField(null=True): null, or a stored list.                           *)
(***************************************************************************)
Null == [null |-> TRUE, val |-> <<>>]

Stored(l) == [null |-> FALSE, val |-> l]

\* Python truth value of a JSONField value: None and [] are both false.
Truthy(x) == ~x.null /\ x.val # <<>>

(***************************************************************************)
(* networkx.Graph: nodes in insertion order, the node attribute "profit"   *)
(* of the nodes that have one, and the undirected edges.                   *)
(***************************************************************************)
EmptyGraph == [nodes |-> <<>>, profit |-> <<>>, edges |-> {}]

WithNode(nodes, n) == IF n \in Range(nodes) THEN nodes ELSE Append(nodes, n)

\* graph.add_node(n, profit=p)
AddNode(G, n, p) ==
    [nodes  |-> WithNode(G.nodes, n),
     profit |-> [x \in (DOMAIN G.profit) \cup {n} |-> IF x = n THEN p ELSE G.profit[x]],
     edges  |-> G.edges]

\* graph.add_edge(u, v): creates the end nodes that are missing, without attributes
AddEdge(G, u, v) ==
    [nodes  |-> WithNode(WithNode(G.nodes, u), v),
     profit |-> G.profit,
     edges  |-> G.edges \cup {{u, v}}]

\* G.has_edge(v, w)
HasEdge(G, v, w) == {v, w} \in G.edges

\* G.degree(v)
Degree(G, v) == Cardinality({e \in G.edges : v \in e})

(***************************************************************************)
(* are_incompatibles                                                       *)
(***************************************************************************)
In(item, l) == \E k \in DOMAIN l : l[k] = item

are_incompatibles_first(t1_resources, t2_resources) ==
    /\ t1_resources # <<>>
    /\ t2_resources # <<>>
    /\ t1_resources[1] = t2_resources[1]

are_incompatibles(t1_resources, t2_resources) ==
    \/ \E i \in DOMAIN t1_resources : In(t1_resources[i], t2_resources)
    \/ \E j \in DOMAIN t2_resources : In(t2_resources[j], t1_resources)

(***************************************************************************)
(* from_tasks_to_graph: the inner loop `for t2 in tasks` of one iteration  *)
(* of the outer loop, from position i on.  err: a KeyError was raised      *)
(* (these lookups are outside the try block).                              *)
(***************************************************************************)
RECURSIVE AddEdgesStop(_, _, _, _)
AddEdgesStop(G, t1, rest, i) ==
    IF i > Len(rest) THEN [err |-> FALSE, graph |-> G]
    ELSE LET t2 == rest[i] IN
         IF ~HasKey(t1, RESOURCES_KEY) \/ ~HasKey(t2, RESOURCES_KEY)
         THEN [err |-> TRUE, graph |-> G]
         ELSE IF are_incompatibles(t1.resources, t2.resources)
              THEN IF ~HasKey(t2, NAME_KEY)
                   THEN [err |-> TRUE, graph |-> G]
                   ELSE [err |-> FALSE, graph |-> AddEdge(G, t1.name, t2.name)]
              ELSE AddEdgesStop(G, t1, rest, i + 1)

RECURSIVE AddEdges(_, _, _, _)
AddEdges(G, t1, rest, i) ==
    IF i > Len(rest) THEN [err |-> FALSE, graph |-> G]
    ELSE LET t2 == rest[i] IN
         IF ~HasKey(t1, RESOURCES_KEY) \/ ~HasKey(t2, RESOURCES_KEY)
         THEN [err |-> TRUE, graph |-> G]
         ELSE IF are_incompatibles(t1.resources, t2.resources)
              THEN IF ~HasKey(t2, NAME_KEY)
                   THEN [err |-> TRUE, graph |-> G]
                   ELSE AddEdges(AddEdge(G, t1.name, t2.name), t1, rest, i + 1)
              ELSE AddEdges(G, t1, rest, i + 1)

(***************************************************************************)
(* MaxWeightTasksSelector                                                  *)
(***************************************************************************)
\* __init__: every node must carry the weight attribute
MissingWeight(G) == \E v \in Range(G.nodes) : v \notin DOMAIN G.profit

\* __init__: self.node_weights
node_weights(G) == [v \in Range(G.nodes) |-> G.profit[v]]

\* sorted(nodes, key=degree, reverse=True): stable, so equal degrees keep their order
RECURSIVE InsertByDegree(_, _, _)
InsertByDegree(G, sorted, v) ==
    IF sorted = <<>> THEN <<v>>
    ELSE IF Degree(G, sorted[1]) >= Degree(G, v)
         THEN <<sorted[1]>> \o InsertByDegree(G, Tail(sorted), v)
         ELSE <<v>> \o sorted

RECURSIVE SortByDegree(_, _, _)
SortByDegree(G, nodes, i) ==
    IF i = 0 THEN <<>>
    ELSE InsertByDegree(G, SortByDegree(G, nodes, i - 1), nodes[i])

\* find_max_weight_clique: the list P of the top-level call of expand
TopLevelNodes(G) ==
    SelectSeq(SortByDegree(G, G.nodes, Len(G.nodes)),
              LAMBDA v : node_weights(G)[v] > 0)

\* update_incumbent_if_improved
UpdateIncumbent(inc, C, C_weight) ==
    IF C_weight > inc.weight THEN [nodes |-> C, weight |-> C_weight] ELSE inc

\* greedily_find_independent_set
RECURSIVE GreedilyFindIndependentSet(_, _)
GreedilyFindIndependentSet(G, P) ==
    IF P = <<>> THEN <<>>
    ELSE LET v == P[1] IN
         <<v>> \o GreedilyFindIndependentSet(G,
                     SelectSeq(P, LAMBDA w : v # w /\ ~HasEdge(G, v, w)))

SetMin(S) == CHOOSE m \in S : \A x \in S : m <= x

\* find_branching_nodes: the loop `while P`
RECURSIVE BranchingLoop(_, _, _, _, _)
BranchingLoop(G, residual_wt, total_wt, P, target) ==
    IF P = <<>> THEN P
    ELSE LET independent_set == Range(GreedilyFindIndependentSet(G, P))
             min_wt_in_class == SetMin({residual_wt[v] : v \in independent_set})
             total == total_wt + min_wt_in_class
             residual == [v \in DOMAIN residual_wt |->
                             IF v \in independent_set
                             THEN residual_wt[v] - min_wt_in_class
                             ELSE residual_wt[v]]
         IN IF total > target THEN P
            ELSE BranchingLoop(G, residual, total,
                               SelectSeq(P, LAMBDA v : residual[v] # 0), target)

\* find_branching_nodes
FindBranchingNodes(G, P, target) ==
    BranchingLoop(G, [v \in Range(P) |-> node_weights(G)[v]], 0, P, target)

\* expand: new_C = C + [v]
NewC(C, v) == Append(C, v)

NewCWeightStale(G, C_weight, v) == C_weight

\* expand: new_C_weight = C_weight + self.node_weights[v]
NewCWeight(G, C_weight, v) == C_weight + node_weights(G)[v]

NewPAdjacent(G, P, v) == SelectSeq(P, LAMBDA w : HasEdge(G, v, w))

\* expand: new_P = [w for w in P if not self.G.has_edge(v, w)]
NewP(G, P, v) == SelectSeq(P, LAMBDA w : ~HasEdge(G, v, w))

\* P.remove(v)
Remove(P, v) == SelectSeq(P, LAMBDA w : w # v)

\* expand, up to its loop: the incumbent after the update and the new frame
Enter(G, inc, C, C_weight, P) ==
    LET new_inc == UpdateIncumbent(inc, C, C_weight) IN
    [inc   |-> new_inc,
     frame |-> [C |-> C, C_weight |-> C_weight, P |-> P,
                branching_nodes |-> FindBranchingNodes(G, P, new_inc.weight - C_weight)]]

(***************************************************************************)
(* Inputs.                                                                 *)
(***************************************************************************)
ResourceLists == {<<>>, <<"a">>, <<"b">>, <<"a", "b">>}

Profits == 0 .. MaxProfit

\* a well-formed list: the i-th task is named i and has the resources and
\* the profit that f gives it
WellFormed(f) == [i \in DOMAIN f |-> Task(i, f[i][1], f[i][2])]

\* the task without key k (the values of absent keys are never read)
Without(t, k) ==
    [keys      |-> t.keys \ {k},
     name      |-> IF k = NAME_KEY THEN 0 ELSE t.name,
     resources |-> IF k = RESOURCES_KEY THEN <<>> ELSE t.resources,
     profit    |-> IF k = PROFIT_KEY THEN 0 ELSE t.profit]

\* a list whose m-th task lacks the key k; from_tasks_to_graph only stores the
\* profits, so the profits that are present are all MaxProfit here
Malformed(r, m, k) ==
    [i \in DOMAIN r |-> IF i = m THEN Without(Task(i, r[i], MaxProfit), k)
                                 ELSE Task(i, r[i], MaxProfit)]

\* five tasks on three resources: t1 conflicts with t4 and t5, t2 with t3
ScenarioResources == << <<"a", "b">>, <<"c">>, <<"c">>, <<"a">>, <<"b">> >>

ScenarioProfits == {1, 2}

Scenario(g) == [i \in DOMAIN ScenarioResources |-> Task(i, ScenarioResources[i], g[i])]

\* the task lists the model is run on
IsInput(l) ==
    \/ \E n \in 0 .. MaxTasks : \E f \in [1 .. n -> ResourceLists \X Profits] :
          l = WellFormed(f)
    \/ \E n \in 1 .. MaxTasks : \E r \in [1 .. n -> ResourceLists] :
          \E m \in 1 .. n : \E k \in AllKeys : l = Malformed(r, m, k)
    \/ \E g \in [DOMAIN ScenarioResources -> ScenarioProfits] : l = Scenario(g)

Reorderings(l) ==
    {[i \in DOMAIN l |-> l[p[i]]] :
        p \in {q \in [DOMAIN l -> DOMAIN l] : \A i, j \in DOMAIN l : q[i] = q[j] => i = j}}

(***************************************************************************)
(* Initial state: a record just created from an uploaded file.             *)
(***************************************************************************)
Init ==
    /\ IsInput(file)
    /\ raw_tasks = Null
    /\ best_schedule = Null
    /\ file_reads = 0
    /\ sched_calls = 0
    /\ caller = "none"
    /\ passed = <<>>
    /\ tasks = <<>>
    /\ graph = EmptyGraph
    /\ stack = <<>>
    /\ incumbent_nodes = <<>>
    /\ incumbent_weight = 0
    /\ schedule = <<>>
    /\ outcome = "none"
    /\ err_task = <<>>
    /\ pc = "idle"

(***************************************************************************)
(* tasks/models.py                                                         *)
(***************************************************************************)
\* the body of get_or_create_raw_tasks: the stored list and the reads after it
RawTasksAfter == IF Truthy(raw_tasks) THEN raw_tasks ELSE Stored(file)

ReadsAfter == IF Truthy(raw_tasks) THEN file_reads ELSE file_reads + 1

\* TasksScheduler.get_or_create_raw_tasks
GetOrCreateRawTasks ==
    /\ pc = "idle"
    /\ ReadsAfter <= MaxCalls
    /\ raw_tasks' = RawTasksAfter
    /\ file_reads' = ReadsAfter
    /\ UNCHANGED <<file, best_schedule, sched_calls, caller, passed, tasks, graph,
                   schedule, outcome, err_task, pc>>
    /\ UNCHANGED search_vars

\* the scheduling function is entered with the list l
StartCall(l, who) ==
    /\ caller' = who
    /\ passed' = l
    /\ tasks' = l
    /\ graph' = EmptyGraph
    /\ stack' = <<>>
    /\ incumbent_nodes' = <<>>
    /\ incumbent_weight' = 0
    /\ schedule' = <<>>
    /\ outcome' = "none"
    /\ err_task' = <<>>
    /\ pc' = "build"

\* TasksScheduler.get_or_create_best_schedule, up to the call of the scheduler
GetOrCreateBestSchedule ==
    /\ pc = "idle"
    /\ Truthy(best_schedule) \/ (sched_calls < MaxCalls /\ ReadsAfter <= MaxCalls)
    /\ IF Truthy(best_schedule)
       THEN UNCHANGED <<file, raw_tasks, best_schedule, file_reads, sched_calls,
                        caller, passed, tasks, graph, schedule, outcome, err_task, pc>>
            /\ UNCHANGED search_vars
       ELSE /\ raw_tasks' = RawTasksAfter
            /\ file_reads' = ReadsAfter
            /\ sched_calls' = sched_calls + 1
            /\ StartCall(RawTasksAfter.val, "model")
            /\ UNCHANGED <<file, best_schedule>>

\* a client calls get_highest_profit_schedule with a reordered copy of the list
CallPermuted ==
    /\ pc = "idle"
    /\ ~best_schedule.null
    /\ caller = "model"
    /\ \E l \in Reorderings(file) : StartCall(l, "direct")
    /\ UNCHANGED record_vars

(***************************************************************************)
(* tasks/scheduler.py                                                      *)
(***************************************************************************)
\* an exception leaves get_highest_profit_schedule and the caller's handler
Raise(kind, t) ==
    /\ outcome' = kind
    /\ err_task' = t
    /\ graph' = EmptyGraph
    /\ pc' = "idle"
    /\ UNCHANGED <<caller, passed, schedule>>
    /\ UNCHANGED record_vars
    /\ UNCHANGED search_vars

\* get_highest_profit_schedule returns s; get_or_create_best_schedule stores it
Return(s) ==
    /\ schedule' = s
    /\ outcome' = "schedule"
    /\ best_schedule' = IF caller = "model" THEN Stored(s) ELSE best_schedule
    /\ pc' = "idle"
    /\ UNCHANGED <<file, raw_tasks, file_reads, sched_calls, caller, passed,
                   tasks, graph, err_task>>

\* from_tasks_to_graph: one iteration of `while tasks`
BuildStep ==
    /\ pc = "build"
    /\ tasks # <<>>
    /\ LET t1 == Last(tasks)
           rest == Front(tasks)
       IN /\ tasks' = rest
          /\ IF ~HasKey(t1, NAME_KEY) \/ ~HasKey(t1, PROFIT_KEY)
             THEN Raise("InvalidTaskFormat", <<t1>>)
             ELSE LET r == AddEdges(AddNode(graph, t1.name, t1.profit), t1, rest, 1)
                  IN IF r.err
                     THEN Raise("KeyError", <<>>)
                     ELSE /\ graph' = r.graph
                          /\ UNCHANGED <<caller, passed, schedule, outcome, err_task, pc>>
                          /\ UNCHANGED record_vars
                          /\ UNCHANGED search_vars

\* from_tasks_to_graph: the loop ends and the graph is returned
BuildDone ==
    /\ pc = "build"
    /\ tasks = <<>>
    /\ pc' = "select"
    /\ UNCHANGED <<caller, passed, tasks, graph, schedule, outcome, err_task>>
    /\ UNCHANGED record_vars
    /\ UNCHANGED search_vars

\* get_maximum_weighted_independient_set: the selector is built and
\* find_max_weight_clique enters expand([], 0, nodes)
StartSearch ==
    /\ pc = "select"
    /\ IF MissingWeight(graph)
       THEN /\ Raise("KeyError", <<>>)
            /\ UNCHANGED tasks
       ELSE LET e == Enter(graph, [nodes |-> <<>>, weight |-> 0], <<>>, 0,
                           TopLevelNodes(graph))
            IN /\ incumbent_nodes' = e.inc.nodes
               /\ incumbent_weight' = e.inc.weight
               /\ stack' = <<e.frame>>
               /\ pc' = "expand"
               /\ UNCHANGED <<caller, passed, tasks, graph, schedule, outcome, err_task>>
               /\ UNCHANGED record_vars

\* expand: one iteration of `while branching_nodes`, entering the recursive call
ExpandBranch ==
    /\ pc = "expand"
    /\ Last(stack).branching_nodes # <<>>
    /\ LET top == Last(stack)
           v == Last(top.branching_nodes)
           P == Remove(top.P, v)
           e == Enter(graph, [nodes |-> incumbent_nodes, weight |-> incumbent_weight],
                      NewC(top.C, v), NewCWeight(graph, top.C_weight, v),
                      NewP(graph, P, v))
       IN /\ incumbent_nodes' = e.inc.nodes
          /\ incumbent_weight' = e.inc.weight
          /\ stack' = Append([stack EXCEPT ![Len(stack)] =
                                 [top EXCEPT !.P = P,
                                             !.branching_nodes = Front(top.branching_nodes)]],
                             e.frame)
    /\ UNCHANGED <<caller, passed, tasks, graph, schedule, outcome, err_task, pc>>
    /\ UNCHANGED record_vars

\* expand: the loop ends and a recursive call returns to its caller
ExpandReturn ==
    /\ pc = "expand"
    /\ Len(stack) > 1
    /\ Last(stack).branching_nodes = <<>>
    /\ stack' = Front(stack)
    /\ UNCHANGED <<incumbent_nodes, incumbent_weight, caller, passed, tasks, graph,
                   schedule, outcome, err_task, pc>>
    /\ UNCHANGED record_vars

\* the top-level call of expand returns: the incumbent is the schedule
SearchDone ==
    /\ pc = "expand"
    /\ Len(stack) = 1
    /\ Last(stack).branching_nodes = <<>>
    /\ stack' = <<>>
    /\ Return(incumbent_nodes)
    /\ UNCHANGED <<incumbent_nodes, incumbent_weight>>

Next ==
    \/ GetOrCreateRawTasks
    \/ GetOrCreateBestSchedule
    \/ BuildStep
    \/ BuildDone
    \/ StartSearch
    \/ ExpandBranch
    \/ ExpandReturn
    \/ SearchDone

Spec == Init /\ [][Next]_vars

NextPermuted == Next \/ CallPermuted

SpecPermuted == Init /\ [][NextPermuted]_vars

(***************************************************************************)
(* Vocabulary of the properties: what the task list itself says, computed  *)
(* from the records and not from the graph.                                *)
(***************************************************************************)
\* the two tasks use a common resource
Shares(t, u) == Range(t.resources) \cap Range(u.resources) # {}

WellFormedList(l) == \A i \in DOMAIN l : l[i].keys = AllKeys

MalformedTasks(l) == {l[i] : i \in {j \in DOMAIN l : l[j].keys # AllKeys}}

TaskNamed(l, n) == l[CHOOSE i \in DOMAIN l : l[i].name = n]

RECURSIVE SumProfit(_, _)
SumProfit(l, I) ==
    IF I = {} THEN 0
    ELSE LET i == CHOOSE x \in I : TRUE IN l[i].profit + SumProfit(l, I \ {i})

\* no two of the tasks at the positions I use a common resource
Compatible(l, I) == \A i, j \in I : i # j => ~Shares(l[i], l[j])

SetMax(S) == CHOOSE m \in S : \A x \in S : x <= m

\* exhaustive enumeration: the best total profit of a conflict-free subset
BestProfit(l) ==
    SetMax({SumProfit(l, I) : I \in {J \in SUBSET DOMAIN l : Compatible(l, J)}})

\* total profit of the tasks of l that the schedule s names
ScheduleProfit(l, s) ==
    SumProfit(l, {i \in DOMAIN l : l[i].name \in Range(s)})

\* the pairs of names of distinct tasks that use a common resource
ConflictEdges(l) ==
    UNION {{{l[i].name, l[j].name} :
               j \in {k \in DOMAIN l : k # i /\ Shares(l[i], l[k])}} : i \in DOMAIN l}

AllConflicting(l) == \A i, j \in DOMAIN l : i # j => Shares(l[i], l[j])

\* the scheduling call has returned a schedule to its caller
Returned == pc = "idle" /\ outcome = "schedule"

\* the scheduling call has ended, with a schedule or an exception
Ended == pc = "idle" /\ outcome # "none"

\* from_tasks_to_graph has returned its graph
GraphReturned == pc \in {"select", "expand"} \/ Returned

RECURSIVE SumWeight(_, _)
SumWeight(w, S) ==
    IF S = {} THEN 0
    ELSE LET v == CHOOSE x \in S : TRUE IN w[v] + SumWeight(w, S \ {v})

\* the nodes of the set S are pairwise non-adjacent in the graph
Independent(S) == \A u, v \in S : u # v => ~HasEdge(graph, u, v)

NoRepeat(s) == \A i, j \in DOMAIN s : i # j => s[i] # s[j]

(***************************************************************************)
(* C1. Optimality: the schedule returned for a well-formed list has the    *)
(* best total profit that any subset of tasks without a common resource    *)
(* has.  Violated: the inherited bound groups nodes that are compatible    *)
(* with each other and counts only the lightest of a group.                *)
(***************************************************************************)
C1_Optimality ==
    (Returned /\ WellFormedList(passed))
        => ScheduleProfit(passed, schedule) = BestProfit(passed)

(***************************************************************************)
(* C2. Disjointness: the returned schedule names no task twice, names only *)
(* tasks of the list, and no two tasks it names use a common resource.     *)
(***************************************************************************)
C2_Disjointness ==
    (Returned /\ WellFormedList(passed))
        => /\ NoRepeat(schedule)
           /\ \A i \in DOMAIN schedule : \E k \in DOMAIN passed : passed[k].name = schedule[i]
           /\ \A i, j \in DOMAIN schedule :
                  i # j => ~Shares(TaskNamed(passed, schedule[i]),
                                   TaskNamed(passed, schedule[j]))

C2_Witness ==
    /\ Returned
    /\ WellFormedList(passed)
    /\ Len(schedule) >= 2
    /\ \E i, j \in DOMAIN passed : i # j /\ Shares(passed[i], passed[j])

(***************************************************************************)
(* C3. Malformed record: a list with a task that lacks a key makes         *)
(* from_tasks_to_graph end with InvalidTaskFormat naming that task, never  *)
(* with another exception and never with a graph.  Violated: the           *)
(* `resources` lookups are outside the try block.                          *)
(***************************************************************************)
C3_MalformedRaisesInvalidTaskFormat ==
    (MalformedTasks(passed) # {})
        => /\ ~GraphReturned
           /\ Ended => /\ outcome = "InvalidTaskFormat"
                       /\ Len(err_task) = 1
                       /\ err_task[1] \in MalformedTasks(passed)

(***************************************************************************)
(* C4. Permutation invariance: the schedule returned for a reordered copy  *)
(* of the list has the same total profit as the schedule returned for the  *)
(* list itself (which the record has stored).  Violated, by the bound of   *)
(* C8: the order of the list decides the order of the search.              *)
(***************************************************************************)
C4_PermutationInvariance ==
    (Returned /\ caller = "direct" /\ WellFormedList(file))
        => ScheduleProfit(passed, schedule) = ScheduleProfit(file, best_schedule.val)

(***************************************************************************)
(* C5. No side effect on the input: when the call has ended, with a        *)
(* schedule or with an exception, the list handed in is what it was at the *)
(* call.  Violated: from_tasks_to_graph pops the tasks off the list.       *)
(***************************************************************************)
C5_InputUnchanged == (Ended \/ GraphReturned) => tasks = passed

(***************************************************************************)
(* C6. All-conflicting / singleton: if every two tasks of a non-empty      *)
(* well-formed list use a common resource, the schedule names exactly one  *)
(* task, of the highest profit in the list.  As stated it is violated by a *)
(* list whose profits are all 0 (the search drops the nodes of weight 0    *)
(* and returns the empty schedule); it holds when some profit is positive. *)
(***************************************************************************)
C6_Applies ==
    /\ Returned
    /\ WellFormedList(passed)
    /\ passed # <<>>
    /\ AllConflicting(passed)

C6_OneBestTask ==
    /\ Len(schedule) = 1
    /\ \E k \in DOMAIN passed :
          /\ passed[k].name = schedule[1]
          /\ \A i \in DOMAIN passed : passed[i].profit <= passed[k].profit

C6_AllConflictingOriginal == C6_Applies => C6_OneBestTask

C6_AllConflicting ==
    (C6_Applies /\ \E i \in DOMAIN passed : passed[i].profit > 0) => C6_OneBestTask

C6_Witness ==
    /\ C6_Applies
    /\ Len(passed) >= 3
    /\ \E i, j \in DOMAIN passed : passed[i].profit > passed[j].profit
    /\ Len(schedule) = 1

(***************************************************************************)
(* C7. Conflict graph construction: the graph returned for a well-formed   *)
(* list has one node per task, weighted with the task's profit, and an     *)
(* edge between two distinct tasks exactly when they use a common          *)
(* resource; no self-loop; a task without resources has no edge.           *)
(***************************************************************************)
C7_ConflictGraph ==
    (GraphReturned /\ WellFormedList(passed))
        => /\ Len(graph.nodes) = Len(passed)
           /\ NoRepeat(graph.nodes)
           /\ Range(graph.nodes) = {passed[i].name : i \in DOMAIN passed}
           /\ DOMAIN graph.profit = Range(graph.nodes)
           /\ \A i \in DOMAIN passed : graph.profit[passed[i].name] = passed[i].profit
           /\ graph.edges = ConflictEdges(passed)
           /\ \A e \in graph.edges : Cardinality(e) = 2
           /\ \A i \in DOMAIN passed :
                  passed[i].resources = <<>> => Degree(graph, passed[i].name) = 0

C7_Witness ==
    /\ pc = "select"
    /\ Len(passed) >= 3
    /\ graph.edges # {}
    /\ \E i \in DOMAIN passed : passed[i].resources = <<>>
    /\ \E i \in DOMAIN passed : Len(passed[i].resources) >= 2

(***************************************************************************)
(* C8. Sound pruning: in every active call of expand, every set S of       *)
(* pairwise non-adjacent nodes of P with C_weight + weight(S) above the    *)
(* incumbent's weight contains a node of the branching set.  (Stated of    *)
(* every active call at every moment: the nodes already taken from the     *)
(* branching set are no longer in P, and the incumbent only grows, so it   *)
(* follows from the statement at the entry of each call.)  Violated.       *)
(***************************************************************************)
C8_SoundPruning ==
    pc = "expand"
        => \A k \in DOMAIN stack :
              \A S \in SUBSET Range(stack[k].P) :
                  (Independent(S)
                     /\ stack[k].C_weight + SumWeight(graph.profit, S) > incumbent_weight)
                     => S \cap Range(stack[k].branching_nodes) # {}

(***************************************************************************)
(* C9. Search-state invariant: in every active call of expand the nodes of *)
(* C are pairwise non-adjacent, no node of P is in C or adjacent to a node *)
(* of C, and C_weight is the sum of the weights of C; the incumbent is a   *)
(* set of pairwise non-adjacent nodes and its weight the sum of theirs.    *)
(***************************************************************************)
C9_SearchState ==
    /\ \A k \in DOMAIN stack :
          LET f == stack[k] IN
          /\ NoRepeat(f.C)
          /\ Independent(Range(f.C))
          /\ \A w \in Range(f.P) :
                /\ w \notin Range(f.C)
                /\ \A u \in Range(f.C) : ~HasEdge(graph, u, w)
          /\ f.C_weight = SumWeight(graph.profit, Range(f.C))
    /\ NoRepeat(incumbent_nodes)
    /\ Independent(Range(incumbent_nodes))
    /\ Range(incumbent_nodes) \subseteq DOMAIN graph.profit
    /\ incumbent_weight = SumWeight(graph.profit, Range(incumbent_nodes))

C9_Witness ==
    /\ pc = "expand"
    /\ Len(stack) >= 3
    /\ graph.edges # {}
    /\ Len(Last(stack).C) >= 2
    /\ Last(stack).P # <<>>
    /\ incumbent_weight >= 2

(***************************************************************************)
(* C10. Compute once, then reuse: on one record the task file is read at   *)
(* most once and the scheduling function is invoked at most once, whatever *)
(* the stored value is.  Violated: `not self.raw_tasks` and                *)
(* `not self.best_schedule` are true of a stored empty list too.           *)
(***************************************************************************)
C10_ComputeOnce == file_reads <= 1 /\ sched_calls <= 1

====
